---- MODULE Spec2Model ----
(***************************************************************************)
(* Resumable paginated fetch-and-checkpoint pipeline of                    *)
(* steam-analyzer-python: backend.get_all_steam_reviews, its helper        *)
(* _save_checkpoint_and_data, save_reviews_to_json, and the worker thread  *)
(* of the data-collection tab that calls them (run_backend_job).           *)
(*                                                                         *)
(* The two folders on disk (data/cache and data/raw) are functions from    *)
(* file names to file contents.  A file name                               *)
(*   {appid}_{date}_{time}_{target}_{count}_reviews.json                   *)
(* is the tuple <<start_time, target, count>> (one appid is modelled, and  *)
(* the folder tells a checkpoint from a dataset).  A review list is a      *)
(* sequence of blocks <<c, n>>: the n reviews of the page that the API     *)
(* returned for cursor c, in the order in which extend() appended them.    *)
(* Cursors are naturals; Sentinel stands for '*'.  Python's None is None   *)
(* for numbers and NoFile for file names.                                  *)
(***************************************************************************)
EXTENDS Integers, Sequences, FiniteSets, TLC

VARIABLES
    api,        \* the review API the runs talk to (fixed along a behaviour)
    ckDir,      \* TEMP_FOLDER: checkpoint file name -> contents
    rawDir,     \* JSON_FOLDER: dataset file name -> contents
    cancel,     \* cancel_event.is_set()
    pc,         \* position of the worker thread
    call,       \* arguments of the call of get_all_steam_reviews being made
    w,          \* local variables of get_all_steam_reviews
    sv,         \* local variables of _save_checkpoint_and_data
    result,     \* value returned by get_all_steam_reviews
    clock,      \* datetime.now(), in invocations started so far
    hist        \* history of the invocations (not read by the program)

vars == <<api, ckDir, rawDir, cancel, pc, call, w, sv, result, clock, hist>>

----------------------------------------------------------------------------
(* Bounds of the model *)

\* invocations of get_all_steam_reviews along one behaviour
MaxRuns == 2
\* pages the modelled API holds at most
MaxApiPages == 3
\* pages of the API with which a Run passes the checkpoint interval
LongPages == 52
\* invocations along one behaviour against the smallest APIs
MoreRuns == 3
\* total reported by an API that never runs out of pages of one review
EndlessTotal == 3

(* Program constants *)

CHECKPOINT_INTERVAL_PAGES == 50
\* num_per_page, and the divisor of page_count = len(all_reviews) // 100
PAGE_SIZE == 100
\* a page that is not full
SHORT_PAGE == 50
\* cursor = '*'
Sentinel == 0
\* Python's None where a number or a cursor is expected
None == -1
\* Python's None where a file name is expected
NoFile == <<>>

----------------------------------------------------------------------------
(* Python helpers *)

\* truth value of an optional number (None and 0 are falsy)
Truthy(x) == x # None /\ x # 0

\* len() of a review list
RECURSIVE Count(_)
Count(revs) ==
    IF revs = <<>> THEN 0 ELSE revs[Len(revs)][2] + Count(SubSeq(revs, 1, Len(revs) - 1))

\* f"{base}_{count}_reviews.json" / "_checkpoint.json"
FileName(st, target, count) == <<st, target, count>>

\* raw_data_filename.rsplit('_', 2)[0], re-suffixed with a new count
Rebase(name, count) == <<name[1], name[2], count>>

\* os.rename(old, new) if old exists and old != new
Rename(dir, old, new) ==
    IF old \in DOMAIN dir /\ old # new
    THEN [f \in (DOMAIN dir \ {old}) \cup {new} |-> IF f = new THEN dir[old] ELSE dir[f]]
    ELSE dir

\* open(path, 'w') ; json.dump(content)
WriteFile(dir, name, content) ==
    [f \in DOMAIN dir \cup {name} |-> IF f = name THEN content ELSE dir[f]]

\* os.remove(path) if os.path.exists(path)
RemoveFile(dir, name) == [f \in DOMAIN dir \ {name} |-> dir[f]]

\* target_count if target_count else (total if total else dflt)
TargetOr(target_count, total, dflt) ==
    IF Truthy(target_count) THEN target_count
    ELSE IF Truthy(total) THEN total ELSE dflt

----------------------------------------------------------------------------
(* The review API: a deterministic function of the cursor *)

PageSizes == {0, SHORT_PAGE, PAGE_SIZE}

RECURSIVE SeqsUpTo(_, _)
SeqsUpTo(S, n) ==
    IF n = 0 THEN {<<>>}
    ELSE LET shorter == SeqsUpTo(S, n - 1)
         IN shorter \cup {Append(s, x) : s \in {t \in shorter : Len(t) = n - 1}, x \in S}

\* what requests.get(...).json() holds for a request with cursor c
ApiResponse(c) ==
    LET k == Len(api.sizes)
    IN [success |-> 1,
        n       |-> IF c < k THEN api.sizes[c + 1]
                    ELSE IF api.last = "more" THEN api.sizes[k] ELSE 0,
        cursor  |-> IF c < k - 1 \/ api.last = "more" THEN c + 1
                    ELSE IF c = k - 1 /\ api.last = "adv" THEN c + 1
                    ELSE IF api.last = "none" THEN None
                    ELSE c,
        total   |-> IF c = Sentinel \/ api.totalEvery THEN api.total ELSE None]

\* pages of 0, 50 or 100 reviews; after the last one the cursor advances once
\* more, stays, or is absent; the total is not reported, or reported as 250, on
\* the first page only (as Steam does) or on every page; runs is the number
\* of invocations the user makes
Scenarios ==
    {s \in [sizes      : SeqsUpTo(PageSizes, MaxApiPages),
            last       : {"adv", "same", "none"},
            total      : {None, 2 * PAGE_SIZE + SHORT_PAGE},
            totalEvery : BOOLEAN,
            runs       : {MaxRuns}] : s.total = None => ~s.totalEvery}

\* full pages only, more of them than the checkpoint interval
LongScenarios ==
    [sizes      : {[i \in 1..LongPages |-> PAGE_SIZE]},
     last       : {"same"},
     total      : {None},
     totalEvery : {FALSE},
     runs       : {MaxRuns}]

\* APIs that never run out of pages: behind the pages listed, every cursor
\* returns a page as large as the last one listed and a new cursor; the total
\* is reported on every page
EndlessScenarios ==
    {s \in [sizes      : {<<1>>, <<1, 2>>, <<SHORT_PAGE>>},
            last       : {"more"},
            total      : {EndlessTotal, 2 * PAGE_SIZE + SHORT_PAGE},
            totalEvery : {TRUE},
            runs       : {MaxRuns}] :
        (s.total = EndlessTotal) <=> (s.sizes[1] = 1)}

\* two full pages, and one invocation more
FewScenarios ==
    [sizes      : {<<PAGE_SIZE, PAGE_SIZE>>},
     last       : {"same"},
     total      : {None},
     totalEvery : {FALSE},
     runs       : {MoreRuns}]

----------------------------------------------------------------------------
(* Initial state: empty folders, no invocation yet *)

EmptyDir == [f \in {} |-> 0]

NoFrame ==
    [max_pages |-> None, all_reviews |-> <<>>, cursor |-> Sentinel,
     start_time |-> 0, raw_data_filename |-> NoFile, checkpoint_filename |-> NoFile,
     target_count |-> None, page_count |-> 0, total_reviews_available |-> None,
     exit |-> "none", requests |-> 0, loaded |-> NoFile, corrupt |-> NoFile,
     inflight |-> FALSE]

NoCall == [resume |-> FALSE, max_pages |-> None]

NoSave == [ret |-> "none", raw |-> NoFile, ckpt |-> NoFile,
           old_raw |-> NoFile, old_ckpt |-> NoFile]

NoResult == [returned |-> FALSE, none |-> TRUE, reviews |-> <<>>,
             start_time |-> 0, target_count |-> None, pages_fetched |-> 0]

InitWith(apis) ==
    /\ api \in apis
    /\ ckDir = EmptyDir
    /\ rawDir = EmptyDir
    /\ cancel = FALSE
    /\ pc = "idle"
    /\ call = NoCall
    /\ w = NoFrame
    /\ sv = NoSave
    /\ result = NoResult
    /\ clock = 0
    /\ hist = <<>>

Init == InitWith(Scenarios)

InitLong == InitWith(LongScenarios)

InitFew == InitWith(FewScenarios)

InitEndless == InitWith(EndlessScenarios)

----------------------------------------------------------------------------
(* The caller: the data-collection tab *)

MaxPagesChoices == {None, 2}

ErrorKinds == {"timeout", "connection", "other"}

\* f"{appid}_checkpoint.json": the name start_analysis_thread looks for, which
\* carries no start time, target or count
UiCheckpointName == <<"checkpoint">>

\* start_analysis_thread asks "Resume Download?" only if that file exists; only
\* a yes to that question makes it pass resume=True
ResumeOffered == UiCheckpointName \in DOMAIN ckDir

\* the checkpoint looked for whether or not resume was asked for
CheckpointChoice_AnyCall(r) ==
    IF DOMAIN ckDir # {} THEN DOMAIN ckDir ELSE {NoFile}

\* checkpoint_files[0] of os.listdir(TEMP_FOLDER): the listing order is arbitrary
CheckpointChoice(r) ==
    IF r /\ DOMAIN ckDir # {} THEN DOMAIN ckDir ELSE {NoFile}

\* what loading a damaged checkpoint file raises: json.JSONDecodeError when the
\* text is cut short or empty (IOError, when the file cannot be opened, is
\* caught by the same clause); UnicodeDecodeError when its bytes are not UTF-8
\* (AttributeError, when the JSON is not an object, is not caught either)
DamageKinds == {"JSONDecodeError", "UnicodeDecodeError"}

\* a checkpoint file that does not load
Damaged(kind) ==
    [damage |-> kind, cursor |-> None, raw_data_filename |-> NoFile,
     target_count |-> None, current_count |-> None, start_time |-> None]

IsDamaged(content) == "damage" \in DOMAIN content

\* line 204: except (IOError, json.JSONDecodeError)
Caught(kind) == kind = "JSONDecodeError"

\* Loaded with the cursor of the checkpoint dropped: the reviews are loaded and
\* the first request starts again from the sentinel
Loaded_CursorForgotten(mp, f, now) ==
    LET fresh == [NoFrame EXCEPT !.max_pages = mp, !.start_time = now]
    IN IF f = NoFile THEN fresh
       ELSE IF IsDamaged(ckDir[f]) THEN [fresh EXCEPT !.corrupt = f]
       ELSE LET ck   == ckDir[f]
                revs == IF ck.raw_data_filename \in DOMAIN rawDir
                        THEN rawDir[ck.raw_data_filename].reviews
                        ELSE <<>>
            IN [fresh EXCEPT !.loaded = f,
                             !.raw_data_filename = ck.raw_data_filename,
                             !.target_count = ck.target_count,
                             !.start_time = ck.start_time,
                             !.all_reviews = revs,
                             !.page_count = Count(revs) \div PAGE_SIZE]

\* lines 169-226: the frame with which the pagination loop is entered; the
\* except clause of lines 204-208 starts afresh when the checkpoint does not load
Loaded(mp, f, now) ==
    LET fresh == [NoFrame EXCEPT !.max_pages = mp, !.start_time = now]
    IN IF f = NoFile THEN fresh
       ELSE IF IsDamaged(ckDir[f]) THEN [fresh EXCEPT !.corrupt = f]
       ELSE LET ck   == ckDir[f]
                revs == IF ck.raw_data_filename \in DOMAIN rawDir
                        THEN rawDir[ck.raw_data_filename].reviews
                        ELSE <<>>
            IN [fresh EXCEPT !.loaded = f,
                             !.cursor = ck.cursor,
                             !.raw_data_filename = ck.raw_data_filename,
                             !.target_count = ck.target_count,
                             !.start_time = ck.start_time,
                             !.all_reviews = revs,
                             !.page_count = Count(revs) \div PAGE_SIZE]

\* start_analysis_thread clears the flag and starts run_backend_job in a thread,
\* which calls get_all_steam_reviews
Start(r, mp) ==
    /\ pc = "idle"
    /\ clock < api.runs
    /\ cancel' = FALSE
    /\ call' = [resume |-> r, max_pages |-> mp]
    /\ pc' = "start"
    /\ UNCHANGED <<api, ckDir, rawDir, w, sv, result, clock, hist>>

\* get_all_steam_reviews, lines 169-226: the checkpoint is looked for and loaded
Enter ==
    /\ pc = "start"
    /\ clock' = clock + 1
    /\ \E f \in CheckpointChoice(call.resume) :
        /\ w' = Loaded(call.max_pages, f, clock + 1)
        /\ pc' = IF f # NoFile /\ IsDamaged(ckDir[f]) /\ ~Caught(ckDir[f].damage)
                 THEN "raised" ELSE "loop"
    /\ call' = NoCall
    /\ UNCHANGED <<api, ckDir, rawDir, cancel, sv, result, hist>>

\* between two invocations a checkpoint file is damaged on disk
Corrupt ==
    /\ pc = "idle"
    /\ \E f \in DOMAIN ckDir, kind \in DamageKinds :
        /\ ~IsDamaged(ckDir[f])
        /\ ckDir' = [ckDir EXCEPT ![f] = Damaged(kind)]
    /\ UNCHANGED <<api, rawDir, cancel, pc, call, w, sv, result, clock, hist>>

\* cancel_download, on the UI thread, while the job runs; the frame records
\* (for the properties) that a page request was in flight at that moment
SetCancel ==
    /\ pc \notin {"idle", "raised"}
    /\ ~cancel
    /\ cancel' = TRUE
    /\ w' = [w EXCEPT !.inflight = (pc = "request")]
    /\ UNCHANGED <<api, ckDir, rawDir, pc, call, sv, result, clock, hist>>

----------------------------------------------------------------------------
(* get_all_steam_reviews: the pagination loop *)

\* the call _save_checkpoint_and_data(..., raw_data_filename, checkpoint_filename, ...)
\* made with frame fr; ret tells where the call was made
CallSave(ret, fr) ==
    /\ sv' = [ret |-> ret, raw |-> fr.raw_data_filename, ckpt |-> fr.checkpoint_filename,
              old_raw |-> NoFile, old_ckpt |-> NoFile]
    /\ pc' = "save_names"

\* the ceiling counted as reached one page late
CeilingReached_Strict(fr) == fr.max_pages # None /\ fr.page_count > fr.max_pages

\* line 228: max_pages is not None and page_count >= max_pages
CeilingReached(fr) == fr.max_pages # None /\ fr.page_count >= fr.max_pages

\* line 228 (the page ceiling) and lines 229-236 (the cancellation check)
LoopTop ==
    /\ pc = "loop"
    /\ IF CeilingReached(w)
       THEN /\ w' = [w EXCEPT !.exit = "ceiling"]
            /\ pc' = "final_names"
            /\ sv' = sv
       ELSE IF cancel
       THEN /\ w' = [w EXCEPT !.exit = "cancel"]
            /\ CallSave("cancel", w)
       ELSE /\ w' = [w EXCEPT !.requests = @ + 1]
            /\ pc' = "request"
            /\ sv' = sv
    /\ UNCHANGED <<api, ckDir, rawDir, cancel, call, result, clock, hist>>

\* the total reported by the API is reached, if count reviews were accumulated
\* once every review counted
TotalReached_Strict(total, count) == Truthy(total) /\ count > total

\* lines 290 and 308: total_reviews_available and len(all_reviews) >= total_reviews_available
TotalReached(total, count) == Truthy(total) /\ count >= total

\* lines 253-329: what a response that parsed does to the frame, and where the
\* loop goes next: to the code after the loop ("final"), into a save that is
\* followed by a break ("save_break") or by the delay ("save_continue"), or to
\* the delay ("sleep")
Process(fr, r) ==
    IF r.success # 1
    THEN [fr |-> [fr EXCEPT !.exit = "api_fail"], next |-> "final"]
    ELSE
    LET total == IF fr.total_reviews_available = None THEN r.total
                 ELSE fr.total_reviews_available
    IN IF r.n = 0
       THEN IF TotalReached(total, Count(fr.all_reviews))
            THEN [fr   |-> [fr EXCEPT !.total_reviews_available = total,
                                      !.exit = "empty_done"],
                  next |-> "final"]
            ELSE [fr   |-> [fr EXCEPT !.total_reviews_available = total,
                                      !.exit = "empty_ckpt"],
                  next |-> "save_break"]
       ELSE LET revs == Append(fr.all_reviews, <<fr.cursor, r.n>>)
                got  == [fr EXCEPT !.total_reviews_available = total,
                                   !.all_reviews = revs,
                                   !.page_count = @ + 1]
            IN IF TotalReached(total, Count(revs))
               THEN [fr |-> [got EXCEPT !.exit = "total"], next |-> "final"]
               ELSE IF r.cursor # None /\ r.cursor # fr.cursor
               THEN [fr   |-> [got EXCEPT !.cursor = r.cursor],
                     next |-> IF got.page_count % CHECKPOINT_INTERVAL_PAGES = 0
                              THEN "save_continue" ELSE "sleep"]
               ELSE [fr |-> [got EXCEPT !.exit = "stagnation"], next |-> "final"]

\* lines 248-329: the worker handles response r
HandleResponse(r) ==
    LET o == Process(w, r)
    IN /\ w' = o.fr
       /\ IF o.next = "save_break" THEN CallSave("break", o.fr)
          ELSE IF o.next = "save_continue" THEN CallSave("continue", o.fr)
          ELSE /\ pc' = IF o.next = "final" THEN "final_names" ELSE "sleep"
               /\ sv' = sv

\* lines 246-248: the request returns a body that parses, with the success
\* flag set
Respond ==
    /\ pc = "request"
    /\ HandleResponse(ApiResponse(w.cursor))
    /\ UNCHANGED <<api, ckDir, rawDir, cancel, call, result, clock, hist>>

\* lines 246-257: the API answers, and reports a failure (success != 1)
ApiFails ==
    /\ pc = "request"
    /\ HandleResponse([ApiResponse(w.cursor) EXCEPT !.success = 0])
    /\ UNCHANGED <<api, ckDir, rawDir, cancel, call, result, clock, hist>>

\* lines 330-362: the request raises Timeout, ConnectionError, or another
\* RequestException / JSONDecodeError
RequestFails(kind) ==
    /\ pc = "request"
    /\ w' = [w EXCEPT !.exit = kind]
    /\ CallSave("break", w)
    /\ UNCHANGED <<api, ckDir, rawDir, cancel, call, result, clock, hist>>

\* lines 324-325: time.sleep(delay_seconds)
Sleep ==
    /\ pc = "sleep"
    /\ pc' = "loop"
    /\ UNCHANGED <<api, ckDir, rawDir, cancel, call, w, sv, result, clock, hist>>

----------------------------------------------------------------------------
(* _save_checkpoint_and_data, one step per file operation *)

\* final_target of lines 114 and 390
FinalTarget(fr) ==
    TargetOr(fr.target_count, fr.total_reviews_available, Count(fr.all_reviews))

\* CheckpointData with current_count taken from the page counter, as if every
\* page were full
CheckpointData_CountFromPages(fr, raw) ==
    [cursor            |-> fr.cursor,
     raw_data_filename |-> raw,
     target_count      |-> TargetOr(fr.target_count, fr.total_reviews_available,
                                    Count(fr.all_reviews)),
     current_count     |-> fr.page_count * PAGE_SIZE,
     start_time        |-> fr.start_time]

\* CheckpointData with the cursor of the last page fetched instead of the
\* cursor of the page to fetch next
CheckpointData_CursorOfLastPage(fr, raw) ==
    [cursor            |-> IF fr.all_reviews = <<>> THEN fr.cursor
                           ELSE fr.all_reviews[Len(fr.all_reviews)][1],
     raw_data_filename |-> raw,
     target_count      |-> TargetOr(fr.target_count, fr.total_reviews_available,
                                    Count(fr.all_reviews)),
     current_count     |-> Count(fr.all_reviews),
     start_time        |-> fr.start_time]

\* the checkpoint file written at lines 115-124
CheckpointData(fr, raw) ==
    [cursor            |-> fr.cursor,
     raw_data_filename |-> raw,
     target_count      |-> FinalTarget(fr),
     current_count     |-> Count(fr.all_reviews),
     start_time        |-> fr.start_time]

\* the dataset written at lines 129-141, and returned at lines 391-401
RawData(fr) ==
    [reviews       |-> fr.all_reviews,
     pages_fetched |-> fr.page_count,
     target_count  |-> FinalTarget(fr),
     start_time    |-> fr.start_time]

\* lines 82-104: the file names, and the rename of the old dataset
SaveNames ==
    /\ pc = "save_names"
    /\ LET n == Count(w.all_reviews)
       IN IF sv.raw = NoFile
          THEN LET target == TargetOr(w.target_count, w.total_reviews_available, 0)
               IN /\ sv' = [sv EXCEPT !.raw = FileName(w.start_time, target, n),
                                      !.ckpt = FileName(w.start_time, target, n)]
                  /\ rawDir' = rawDir
                  /\ pc' = "save_write_ckpt"
          ELSE /\ sv' = [sv EXCEPT !.old_raw = sv.raw, !.old_ckpt = sv.ckpt,
                                   !.raw = Rebase(sv.raw, n), !.ckpt = Rebase(sv.raw, n)]
               /\ rawDir' = Rename(rawDir, sv.raw, Rebase(sv.raw, n))
               /\ pc' = "save_rename_ckpt"
    /\ UNCHANGED <<api, ckDir, cancel, call, w, result, clock, hist>>

\* lines 106-109: the rename of the old checkpoint; os.path.join(TEMP_FOLDER, None)
\* raises TypeError
SaveRenameCheckpoint ==
    /\ pc = "save_rename_ckpt"
    /\ IF sv.old_ckpt = NoFile
       THEN /\ pc' = "raised"
            /\ ckDir' = ckDir
       ELSE /\ pc' = "save_write_ckpt"
            /\ ckDir' = Rename(ckDir, sv.old_ckpt, sv.ckpt)
    /\ UNCHANGED <<api, rawDir, cancel, call, w, sv, result, clock, hist>>

\* lines 111-124
SaveWriteCheckpoint ==
    /\ pc = "save_write_ckpt"
    /\ ckDir' = WriteFile(ckDir, sv.ckpt, CheckpointData(w, sv.raw))
    /\ pc' = "save_write_raw"
    /\ UNCHANGED <<api, rawDir, cancel, call, w, sv, result, clock, hist>>

\* SaveWriteRaw with the break of the except clauses missing: after the save the
\* loop goes on to the delay and the next request
SaveWriteRaw_Retry ==
    /\ pc = "save_write_raw"
    /\ rawDir' = WriteFile(rawDir, sv.raw, RawData(w))
    /\ IF sv.ret = "cancel"
       THEN /\ pc' = "returned"
            /\ result' = [NoResult EXCEPT !.returned = TRUE]
            /\ w' = w
       ELSE /\ pc' = IF sv.ret = "break" /\ w.exit \notin ErrorKinds
                     THEN "final_names" ELSE "sleep"
            /\ result' = result
            /\ w' = [w EXCEPT !.raw_data_filename = sv.raw, !.checkpoint_filename = sv.ckpt]
    /\ sv' = NoSave
    /\ UNCHANGED <<api, ckDir, cancel, call, clock, hist>>

\* lines 126-143, and the return into the caller: lines 234-236 after the call of
\* line 231 (the returned names are dropped there), the assignment of the
\* returned names and the break after the calls of lines 295, 334, 345 and 356,
\* the assignment and the delay after the call of line 317
SaveWriteRaw ==
    /\ pc = "save_write_raw"
    /\ rawDir' = WriteFile(rawDir, sv.raw, RawData(w))
    /\ IF sv.ret = "cancel"
       THEN /\ pc' = "returned"
            /\ result' = [NoResult EXCEPT !.returned = TRUE]
            /\ w' = w
       ELSE /\ pc' = IF sv.ret = "break" THEN "final_names" ELSE "sleep"
            /\ result' = result
            /\ w' = [w EXCEPT !.raw_data_filename = sv.raw, !.checkpoint_filename = sv.ckpt]
    /\ sv' = NoSave
    /\ UNCHANGED <<api, ckDir, cancel, call, clock, hist>>

----------------------------------------------------------------------------
(* get_all_steam_reviews after the loop *)

\* lines 366-387: the final file names, and the rename of the dataset
FinalNames ==
    /\ pc = "final_names"
    /\ LET n == Count(w.all_reviews)
       IN IF w.raw_data_filename = NoFile
          THEN /\ w' = [w EXCEPT
                     !.raw_data_filename = FileName(w.start_time, FinalTarget(w), n),
                     !.checkpoint_filename = FileName(w.start_time, FinalTarget(w), n)]
               /\ rawDir' = rawDir
          ELSE /\ w' = [w EXCEPT
                     !.raw_data_filename = Rebase(w.raw_data_filename, n),
                     !.checkpoint_filename = Rebase(w.raw_data_filename, n)]
               /\ rawDir' = Rename(rawDir, w.raw_data_filename, Rebase(w.raw_data_filename, n))
    /\ pc' = "final_return"
    /\ UNCHANGED <<api, ckDir, cancel, call, sv, result, clock, hist>>

\* lines 389-410: the checkpoint is deleted unless the flag is set; final_data
\* is returned
FinalReturn ==
    /\ pc = "final_return"
    /\ ckDir' = IF ~cancel /\ w.checkpoint_filename \in DOMAIN ckDir
                THEN RemoveFile(ckDir, w.checkpoint_filename)
                ELSE ckDir
    /\ result' = [returned |-> TRUE, none |-> FALSE] @@ RawData(w)
    /\ pc' = "returned"
    /\ UNCHANGED <<api, rawDir, cancel, call, w, sv, clock, hist>>

----------------------------------------------------------------------------
(* run_backend_job after the fetch, and the end of the worker thread *)

\* what an invocation leaves in the history
Ended(raised) ==
    [start_time |-> w.start_time, max_pages |-> w.max_pages,
     exit |-> IF raised THEN "raised"
              ELSE IF w.exit \in ErrorKinds THEN "error" ELSE w.exit,
     reviews |-> w.all_reviews]

\* save_reviews_to_json, lines 423-452
SavedToJson(dir, data) ==
    IF data.none \/ data.reviews = <<>> THEN dir
    ELSE WriteFile(dir,
                   FileName(data.start_time, data.target_count, Count(data.reviews)),
                   [reviews |-> data.reviews, pages_fetched |-> data.pages_fetched,
                    target_count |-> data.target_count, start_time |-> data.start_time])

\* run_backend_job, lines 299-307: the dataset is saved if there is one, and
\* {'type': 'done'} is posted
CallerFinish ==
    /\ pc = "returned"
    /\ rawDir' = SavedToJson(rawDir, result)
    /\ hist' = Append(hist, Ended(FALSE))
    /\ pc' = "idle"
    /\ w' = NoFrame
    /\ sv' = NoSave
    /\ result' = NoResult
    /\ UNCHANGED <<api, ckDir, cancel, call, clock>>

\* the exception ended the worker thread with the buttons disabled; the
\* application is started again
Restart ==
    /\ pc = "raised"
    /\ hist' = Append(hist, Ended(TRUE))
    /\ pc' = "idle"
    /\ cancel' = FALSE
    /\ w' = NoFrame
    /\ sv' = NoSave
    /\ result' = NoResult
    /\ UNCHANGED <<api, ckDir, rawDir, call, clock>>

----------------------------------------------------------------------------

Next ==
    \/ \E r \in BOOLEAN, mp \in MaxPagesChoices : Start(r, mp)
    \/ Enter
    \/ SetCancel
    \/ LoopTop
    \/ Respond
    \/ ApiFails
    \/ \E kind \in ErrorKinds : RequestFails(kind)
    \/ Sleep
    \/ SaveNames
    \/ SaveRenameCheckpoint
    \/ SaveWriteCheckpoint
    \/ SaveWriteRaw
    \/ FinalNames
    \/ FinalReturn
    \/ CallerFinish
    \/ Restart

Spec == Init /\ [][Next]_vars

\* the same program against an API that holds more pages than the checkpoint
\* interval
SpecLong == InitLong /\ [][Next]_vars

\* both families of APIs
SpecAll == (Init \/ InitLong) /\ [][Next]_vars

\* the steps of the worker thread: requests.get returns or raises within its
\* timeout, time.sleep returns, file operations return
Worker ==
    \/ Enter
    \/ LoopTop
    \/ Respond
    \/ ApiFails
    \/ \E kind \in ErrorKinds : RequestFails(kind)
    \/ Sleep
    \/ SaveNames
    \/ SaveRenameCheckpoint
    \/ SaveWriteCheckpoint
    \/ SaveWriteRaw
    \/ FinalNames
    \/ FinalReturn
    \/ CallerFinish

\* the program against APIs that never run out of pages, the worker thread
\* being scheduled
SpecEndless == InitEndless /\ [][Next]_vars /\ WF_vars(Worker)

\* three invocations against the smallest API, with checkpoint files that may
\* be damaged between invocations
NextFaulty == Next \/ Corrupt

SpecFaulty == InitFew /\ [][NextFaulty]_vars

----------------------------------------------------------------------------
(* Vocabulary of the properties *)

\* how the loop was left, by terminal state of the Run
CompletedExits == {"total", "stagnation", "empty_done", "empty_ckpt", "ceiling"}
FailedExits == ErrorKinds \cup {"api_fail"}

\* number of reviews in the dataset file of that name (none if there is no file)
ItemsOnDisk(name) ==
    IF name \in DOMAIN rawDir THEN Count(rawDir[name].reviews) ELSE 0

\* the dataset a checkpoint file names exists and holds current_count reviews
CheckpointConsistent(dir, raws, f) ==
    /\ dir[f].raw_data_filename \in DOMAIN raws
    /\ Count(raws[dir[f].raw_data_filename].reviews) = dir[f].current_count

\* a checkpoint file on disk records this cursor and this review list, and its
\* dataset holds the list
CheckpointOf(cur, revs) ==
    \E f \in DOMAIN ckDir :
        /\ ckDir[f].cursor = cur
        /\ ckDir[f].current_count = Count(revs)
        /\ ckDir[f].raw_data_filename \in DOMAIN rawDir
        /\ rawDir[ckDir[f].raw_data_filename].reviews = revs

\* the reviews an invocation collects when nothing interrupts it: no
\* cancellation, no transport error, no failure reported by the API
RECURSIVE RunOn(_)
RunOn(fr) ==
    IF CeilingReached(fr) THEN fr.all_reviews
    ELSE LET o == Process(fr, ApiResponse(fr.cursor))
         IN IF o.next \in {"final", "save_break"} THEN o.fr.all_reviews
            ELSE RunOn(o.fr)

FreshResult(mp) == RunOn(Loaded(mp, NoFile, 0))

\* the invocation in progress resumed the checkpoint of a Run that had been
\* cancelled (once or several times), with the parameters of that Run
ResumedAfterCancel ==
    /\ hist # <<>>
    /\ w.loaded # NoFile
    /\ \A i \in 1..Len(hist) :
        /\ hist[i].exit = "cancel"
        /\ hist[i].start_time = w.start_time
        /\ hist[i].max_pages = w.max_pages

----------------------------------------------------------------------------
(* C1: in every on-disk state, every checkpoint file names a dataset file that
   exists and holds exactly current_count reviews. *)
C1_CheckpointMatchesDataset ==
    \A f \in DOMAIN ckDir : CheckpointConsistent(ckDir, rawDir, f)

(* C1, at the points where no invocation is in progress: the same statement,
   violated there too (a Run that raised, or a resumed Run that completed). *)
C1_AtRest ==
    pc = "idle" => C1_CheckpointMatchesDataset

(* C2: when get_all_steam_reviews returns after a transport error of any kind,
   a checkpoint file and its dataset remain on disk with the reviews fetched
   so far and the cursor of the failed request. *)
C2_TransportErrorLeavesCheckpoint ==
    (pc = "returned" /\ w.exit \in ErrorKinds) => CheckpointOf(w.cursor, w.all_reviews)

(* C3: a Run that was cancelled and then resumed, the API being deterministic,
   runs to completion and returns the reviews that an uninterrupted fresh Run
   with the same parameters returns, in the same order. *)
C3_IdempotentResume ==
    (ResumedAfterCancel /\ w.exit \in CompletedExits) =>
        /\ pc # "raised"
        /\ pc = "returned" => result.reviews = FreshResult(w.max_pages)

(* C4: at no point inside a save does a checkpoint file on disk record more
   reviews than the dataset it names holds. *)
C4_DatasetWrittenFirst ==
    pc \in {"save_names", "save_rename_ckpt", "save_write_ckpt", "save_write_raw"} =>
        \A f \in DOMAIN ckDir :
            ItemsOnDisk(ckDir[f].raw_data_filename) >= ckDir[f].current_count

(* C5: when an invocation returns at the end of a Run that completed (total
   reached, cursor stagnation, empty page at the end, page ceiling), the flag
   never having been set, no checkpoint file of that Run is left on disk. *)
C5_NoCheckpointAfterCompleted ==
    (pc = "returned" /\ w.exit \in CompletedExits /\ ~cancel) =>
        \A f \in DOMAIN ckDir : f[1] # w.start_time

(* C6: once the worker has observed the flag at the top of an iteration, on a
   fresh or a resumed Run, the save does not raise, and the invocation returns
   None with a checkpoint on disk that records the current cursor and the
   current review list. *)
C6_CancelSavesCheckpoint ==
    w.exit = "cancel" =>
        /\ pc # "raised"
        /\ pc = "returned" => (result.none /\ CheckpointOf(w.cursor, w.all_reviews))

(* C7: the loop is never left on an empty page whose next cursor differs from
   the cursor just used, unless the known total is reached. *)
C7_TransientGapContinues ==
    w.exit = "empty_ckpt" =>
        ApiResponse(w.cursor).cursor \in {None, w.cursor}

(* C8: when the loop is left because the API reported a failure, a checkpoint
   of the current cursor and review list has been saved. *)
C8_ApiFailureSavesCheckpoint ==
    (w.exit = "api_fail" /\ pc \in {"final_names", "final_return", "returned"}) =>
        CheckpointOf(w.cursor, w.all_reviews)

(* C9: every completed call of _save_checkpoint_and_data leaves, under the
   checkpoint name it computed, a checkpoint file whose current_count is the
   length of the review list at that call, and whose raw_data_filename names
   a dataset file that holds that many reviews. *)
C9_SaveLeavesConsistentPair ==
    [][(pc = "save_write_raw" /\ pc' # "save_write_raw") =>
          /\ sv.ckpt \in DOMAIN ckDir'
          /\ ckDir'[sv.ckpt].current_count = Count(w.all_reviews)
          /\ CheckpointConsistent(ckDir', rawDir', sv.ckpt)]_vars

\* the save after a transport error has returned, one page after a periodic
\* save of the same Run: it renamed both files and wrote them again
C9_Witness ==
    /\ pc = "final_names"
    /\ w.exit \in ErrorKinds
    /\ w.page_count = CHECKPOINT_INTERVAL_PAGES + 1
    /\ CheckpointOf(w.cursor, w.all_reviews)

(* C10: when no checkpoint file is on disk and no invocation is in progress,
   every dataset file is the final review list of a Run that completed: the
   last invocation of the Run that the file name belongs to left the loop
   completed, with the reviews the file holds. *)
C10_DatasetWithoutCheckpointIsFinal ==
    (pc = "idle" /\ DOMAIN ckDir = {}) =>
        \A f \in DOMAIN rawDir :
            \E i \in 1..Len(hist) :
                /\ hist[i].start_time = f[1]
                /\ \A j \in (i + 1)..Len(hist) : hist[j].start_time # f[1]
                /\ hist[i].exit \in CompletedExits
                /\ hist[i].reviews = rawDir[f].reviews

(* C11: whenever a page request of an invocation ended in a transport error or
   in a failure reported by the API, on a fresh or a resumed Run, no exception
   leaves get_all_steam_reviews. *)
C11_ErrorsHandledLocally ==
    w.exit \in FailedExits => pc # "raised"

(* C12: no page request is in flight while the known total is already reached
   by the accumulated reviews; the Run that stops on the total returns its
   dataset; and against pages of 100, 100 and 50 reviews with a reported total
   of 250, a fresh Run without page ceiling that nothing interrupts returns 250
   reviews after exactly 3 requests. *)
C12_StopsAtTotal ==
    /\ (pc = "request" /\ Truthy(w.total_reviews_available)) =>
            Count(w.all_reviews) < w.total_reviews_available
    /\ w.exit = "total" =>
            /\ Count(w.all_reviews) >= w.total_reviews_available
            /\ pc \in {"final_names", "final_return", "returned"}
    /\ (pc = "returned" /\ w.exit = "total") =>
            (~result.none /\ result.reviews = w.all_reviews)
    /\ (/\ pc = "returned" /\ w.loaded = NoFile /\ w.max_pages = None
        /\ api.sizes = <<PAGE_SIZE, PAGE_SIZE, SHORT_PAGE>>
        /\ api.total = 2 * PAGE_SIZE + SHORT_PAGE
        /\ w.exit \notin FailedExits \cup {"cancel"}) =>
            /\ w.exit = "total"
            /\ w.requests = 3
            /\ Count(result.reviews) = 2 * PAGE_SIZE + SHORT_PAGE

\* the fresh Run of the example has returned
C12_Witness ==
    /\ pc = "returned" /\ w.loaded = NoFile /\ w.exit = "total"
    /\ w.requests = 3
    /\ Count(result.reviews) = 2 * PAGE_SIZE + SHORT_PAGE

(* C13: once the response to the request of the current cursor, which shows no
   cursor movement, has ended the loop, no exception is raised, no further
   request or delay follows, and the invocation returns a dataset that holds
   exactly the reviews of the pages fetched so far; and the loop continues
   (delay, periodic save) only behind a page whose cursor moved. *)
C13_StagnationCompletes ==
    /\ (/\ w.exit \in {"total", "stagnation", "empty_done", "empty_ckpt"}
        /\ ApiResponse(w.cursor).cursor \in {None, w.cursor}) =>
            /\ pc \notin {"raised", "request", "sleep", "loop"}
            /\ pc = "returned" => (~result.none /\ result.reviews = w.all_reviews)
    /\ (pc = "sleep" \/ sv.ret = "continue") =>
            /\ w.all_reviews # <<>>
            /\ w.cursor \notin {None, w.all_reviews[Len(w.all_reviews)][1]}

(* C14: a fresh Run that leaves the loop on the page ceiling P has issued
   exactly P requests and holds the reviews of the first P pages of the API;
   the invocation returns them as its dataset; and with P = 2 against three
   full pages and no reported total, a Run that no error and no cancellation
   stops ends on the ceiling with 200 reviews. *)
C14_CeilingCompletes ==
    /\ (w.exit = "ceiling" /\ w.loaded = NoFile) =>
            /\ w.requests = w.max_pages
            /\ w.all_reviews = [i \in 1..w.max_pages |-> <<i - 1, api.sizes[i]>>]
            /\ pc \in {"final_names", "final_return", "returned"}
    /\ (pc = "returned" /\ w.exit = "ceiling") =>
            (~result.none /\ result.reviews = w.all_reviews)
    /\ (/\ pc = "returned" /\ w.loaded = NoFile /\ w.max_pages = 2
        /\ api.sizes = <<PAGE_SIZE, PAGE_SIZE, PAGE_SIZE>> /\ api.total = None
        /\ w.exit \notin FailedExits \cup {"cancel"}) =>
            /\ w.exit = "ceiling"
            /\ Count(result.reviews) = 2 * PAGE_SIZE

\* the fresh Run with ceiling 2 has returned 200 reviews, a third page being
\* available
C14_Witness ==
    /\ pc = "returned" /\ w.loaded = NoFile /\ w.exit = "ceiling"
    /\ w.max_pages = 2 /\ w.requests = 2
    /\ Len(api.sizes) = 3 /\ api.sizes[3] > 0
    /\ Count(result.reviews) = 2 * PAGE_SIZE

(* C15: an invocation that asked to resume and whose checkpoint file did not
   load runs as a fresh Run: it enters the loop with the sentinel cursor, an
   empty buffer and its own start time, its first request carries the sentinel
   cursor, its buffer only ever holds the pages of the API from the first one
   on, and it never ends with an exception. *)
C15_CorruptCheckpointFallsBack ==
    w.corrupt # NoFile =>
        /\ pc # "raised"
        /\ w.loaded = NoFile /\ w.start_time = clock
        /\ w.requests = 0 => (w.cursor = Sentinel /\ w.all_reviews = <<>>)
        /\ (pc = "request" /\ w.requests = 1) => w.cursor = Sentinel
        /\ w.all_reviews = [i \in 1..Len(w.all_reviews) |-> <<i - 1, api.sizes[i]>>]

(* C16: when an invocation that resumes has loaded a checkpoint and is about to
   start its loop, no checkpoint file on disk belongs to a Run that started
   later than the Run of the checkpoint it loaded. *)
C16_MostRecentCheckpointLoaded ==
    (pc = "loop" /\ w.requests = 0 /\ w.exit = "none" /\ w.loaded # NoFile) =>
        \A f \in DOMAIN ckDir : f[1] <= w.loaded[1]

(* C17: an invocation with resume = False enters the loop with the sentinel
   cursor, an empty buffer, page counter 0, no file names, no target count and
   its own start time, and leaves the checkpoint files as they are, whatever
   they hold. *)
C17_FreshIgnoresCheckpoints ==
    [][(pc = "start" /\ pc' = "loop" /\ ~call.resume) =>
          /\ w'.cursor = Sentinel /\ w'.all_reviews = <<>> /\ w'.page_count = 0
          /\ w'.raw_data_filename = NoFile /\ w'.checkpoint_filename = NoFile
          /\ w'.target_count = None /\ w'.loaded = NoFile
          /\ w'.start_time = clock' /\ w'.start_time \notin {f[1] : f \in DOMAIN ckDir}
          /\ ckDir' = ckDir]_vars

\* a Run starts afresh while a checkpoint that would load is on disk
C17_Witness ==
    /\ pc = "loop" /\ w.requests = 0 /\ w.exit = "none"
    /\ w.loaded = NoFile /\ w.corrupt = NoFile
    /\ \E f \in DOMAIN ckDir : ckDir[f].current_count > 0

(* C18: once a page request of an invocation has ended in a transport error or
   in a failure reported by the API, that invocation issues no further
   request. *)
C18_NoRetryAfterError ==
    [][w.exit \in FailedExits =>
          (pc' # "request" /\ w'.requests <= w.requests)]_vars

\* the second request of an invocation failed, and the invocation has returned
C18_Witness ==
    /\ pc = "returned" /\ w.exit \in ErrorKinds /\ w.requests = 2
    /\ Count(w.all_reviews) > 0

(* C19: after a save inside the loop, and when an invocation is over and its
   dataset is written, at most one dataset file and at most one checkpoint
   file of each Run are on disk. *)
C19_OneLiveCopy ==
    pc \in {"idle", "sleep"} =>
        \A t \in 1..clock :
            /\ Cardinality({f \in DOMAIN rawDir : f[1] = t}) <= 1
            /\ Cardinality({f \in DOMAIN ckDir : f[1] = t}) <= 1

(* C20: once the flag has been set while a page request was in flight, the
   response of that request is processed as usual and its reviews are
   appended; no new request is started; at most one delay follows, after which
   the top of the loop ends the Run; and the save made there on cancellation
   does not end the invocation with an exception. *)
C20_CancelDuringRequest ==
    [][w.inflight =>
          /\ pc' = "request" => pc = "request"
          /\ (pc = "request" /\ pc' # "request" /\ w'.exit \notin FailedExits) =>
                w'.all_reviews =
                    IF ApiResponse(w.cursor).n > 0
                    THEN Append(w.all_reviews, <<w.cursor, ApiResponse(w.cursor).n>>)
                    ELSE w.all_reviews
          /\ pc = "sleep" => pc' \in {"sleep", "loop"}
          /\ pc = "loop" => pc' \in {"loop", "save_names", "final_names"}
          /\ w.exit = "cancel" => pc' # "raised"]_vars

\* C20 without its last part: what holds of the code
C20_InFlightRequestCompletes ==
    [][w.inflight =>
          /\ pc' = "request" => pc = "request"
          /\ (pc = "request" /\ pc' # "request" /\ w'.exit \notin FailedExits) =>
                w'.all_reviews =
                    IF ApiResponse(w.cursor).n > 0
                    THEN Append(w.all_reviews, <<w.cursor, ApiResponse(w.cursor).n>>)
                    ELSE w.all_reviews
          /\ pc = "sleep" => pc' \in {"sleep", "loop"}
          /\ pc = "loop" => pc' \in {"loop", "save_names", "final_names"}]_vars

(* C21: when an invocation that resumes has loaded a checkpoint and is about to
   start its loop, its buffer holds exactly current_count reviews and its
   cursor is the checkpoint's cursor (an invocation that loaded nothing is
   fresh: sentinel cursor, empty buffer). *)
C21_ResumeLoadConsistent ==
    (pc = "loop" /\ w.requests = 0 /\ w.exit = "none") =>
        IF w.loaded # NoFile
        THEN /\ Count(w.all_reviews) = ckDir[w.loaded].current_count
             /\ w.cursor = ckDir[w.loaded].cursor
        ELSE w.cursor = Sentinel /\ w.all_reviews = <<>>

\* the pages of the API from the first one up to (not including) cursor c, as
\* the buffer holds them
PagesBefore(c) == [i \in 1..c |-> <<i - 1, api.sizes[i]>>]

(* C22: every checkpoint file whose dataset is on disk with the recorded count
   records the cursor of the first page that the dataset does not hold: the
   dataset holds exactly the pages before that cursor, each once and in order;
   and an invocation that has loaded such a checkpoint starts its loop with
   exactly these pages in its buffer and with that cursor. *)
C22_CheckpointCursorIsNextPage ==
    /\ \A f \in DOMAIN ckDir :
          CheckpointConsistent(ckDir, rawDir, f) =>
              /\ ckDir[f].cursor <= Len(api.sizes)
              /\ rawDir[ckDir[f].raw_data_filename].reviews = PagesBefore(ckDir[f].cursor)
    /\ (/\ pc = "loop" /\ w.requests = 0 /\ w.exit = "none" /\ w.loaded # NoFile
        /\ CheckpointConsistent(ckDir, rawDir, w.loaded)) =>
            /\ w.cursor = ckDir[w.loaded].cursor
            /\ w.all_reviews = PagesBefore(w.cursor)

\* a Run cancelled after its second page has been resumed from its checkpoint
C22_Witness ==
    /\ pc = "loop" /\ w.requests = 0 /\ w.exit = "none" /\ w.loaded # NoFile
    /\ CheckpointConsistent(ckDir, rawDir, w.loaded)
    /\ w.cursor = 2 /\ Len(w.all_reviews) = 2

(* C23: at any time at most one checkpoint file is on disk (one app id is
   modelled). *)
C23_OneCheckpointPerTarget ==
    Cardinality(DOMAIN ckDir) <= 1

(* C24: whenever the top of the loop is passed with the flag set, the Run is
   cancelled (a checkpoint is saved and None returned), also when the page
   ceiling is reached at that moment. *)
C24_CancelBeforeCeiling ==
    [][(pc = "loop" /\ cancel /\ pc' # "loop") =>
          (w'.exit = "cancel" /\ pc' = "save_names")]_vars

(* C25: the handling of a response starts a periodic save exactly when the page
   was not empty, the known total is not reached, the cursor advanced and the
   page counter is a multiple of CHECKPOINT_INTERVAL_PAGES; that save does not
   raise; and when it returns, a checkpoint on disk records the adopted cursor
   and the buffer, that page included. *)
C25_PeriodicCheckpoint ==
    [][/\ (pc = "request" /\ pc' # "request") =>
            LET r == ApiResponse(w.cursor)
            IN (sv'.ret = "continue") <=>
                   /\ w'.exit \notin FailedExits
                   /\ r.n > 0
                   /\ ~TotalReached(w'.total_reviews_available,
                                    Count(w.all_reviews) + r.n)
                   /\ r.cursor \notin {None, w.cursor}
                   /\ w'.page_count % CHECKPOINT_INTERVAL_PAGES = 0
       /\ sv.ret = "continue" => pc' # "raised"
       /\ (sv.ret = "continue" /\ pc = "save_write_raw" /\ pc' = "sleep") =>
            /\ w'.cursor = ApiResponse(w.all_reviews[Len(w.all_reviews)][1]).cursor
            /\ \E f \in DOMAIN ckDir' :
                  /\ ckDir'[f].cursor = w'.cursor
                  /\ ckDir'[f].current_count = Count(w'.all_reviews)
                  /\ ckDir'[f].raw_data_filename \in DOMAIN rawDir'
                  /\ rawDir'[ckDir'[f].raw_data_filename].reviews = w'.all_reviews]_vars

(* C26: in an invocation that resumed a Run cancelled with the same page
   ceiling, the buffer never holds more pages than the ceiling, and the
   pages_fetched of the dataset returned when the Run completes is the number
   of pages in it. *)
C26_CeilingAcrossResume ==
    (ResumedAfterCancel /\ w.max_pages # None) =>
        /\ Len(w.all_reviews) <= w.max_pages
        /\ (pc = "returned" /\ w.exit \in CompletedExits) =>
                result.pages_fetched = Len(result.reviews)

(* C27: the cursor of every page request is the sentinel when it is the first
   request of an invocation that loaded no checkpoint, the cursor stored in
   the loaded checkpoint when it is the first request after a resume, and
   otherwise the cursor returned with the page appended last, which is the
   page of the preceding request. *)
C27_RequestCursor ==
    pc = "request" =>
        IF w.requests = 1
        THEN w.cursor = IF w.loaded = NoFile THEN Sentinel ELSE ckDir[w.loaded].cursor
        ELSE /\ w.all_reviews # <<>>
             /\ LET last == w.all_reviews[Len(w.all_reviews)]
                IN /\ last[2] > 0
                   /\ ApiResponse(last[1]).cursor \notin {None, last[1]}
                   /\ w.cursor = ApiResponse(last[1]).cursor

\* the second request of a resumed invocation is in flight
C27_Witness ==
    /\ pc = "request" /\ w.requests = 2 /\ w.loaded # NoFile
    /\ ckDir[w.loaded].cursor > Sentinel

(* C28: an invocation that loaded no checkpoint and knows a positive total T
   has issued at most T page requests, and every such invocation that entered
   its loop returns, also against an API that never runs out of pages and with
   no page ceiling. *)
C28_TerminatesWithinTotal ==
    /\ []((w.loaded = NoFile /\ Truthy(w.total_reviews_available)) =>
              w.requests <= w.total_reviews_available)
    /\ (pc = "loop" /\ w.loaded = NoFile) ~> (pc = "returned")

\* a fresh Run without ceiling stopped on the total after exactly T requests
\* against an API that never runs out of pages
C28_Witness ==
    /\ pc = "returned" /\ w.loaded = NoFile /\ w.max_pages = None
    /\ api.last = "more" /\ w.exit = "total"
    /\ w.requests = w.total_reviews_available

(* C29: no fetch job ends without posting {'type': 'done'}: the worker thread
   is never ended by an exception that left get_all_steam_reviews, the message
   being posted only by the last statement of run_backend_job. *)
C29_EveryJobPostsDone ==
    pc # "raised" /\ \A i \in 1..Len(hist) : hist[i].exit # "raised"

(* C30: a fetch started while the backend's checkpoint folder holds a
   checkpoint is offered the resume choice. *)
C30_CheckpointOffersResume ==
    (pc = "start" /\ DOMAIN ckDir # {}) => ResumeOffered

====
